---- MODULE Spec2Model ----
(***************************************************************************)
(* SigNeedPro: placeholder scan, placement store, embedding engine and the *)
(* signing session around them.                                            *)
(*                                                                         *)
(* Numbers the code computes in floating point are modelled as exact       *)
(* rationals <<numerator, denominator>> in lowest terms.                   *)
(***************************************************************************)
EXTENDS Integers, Sequences, FiniteSets, TLC

\* ------------------------------------------------------------------ bounds
MaxPages == 2

\* ------------------------------------------------------- program constants
boxWidth == 150
boxHeight == 60
fallbackHeight == 12

\* --------------------------------------------------------------- rationals
RECURSIVE Gcd(_, _)
Gcd(a, b) == IF b = 0 THEN a ELSE Gcd(b, a % b)

Abs(a) == IF a < 0 THEN -a ELSE a

Q(n, d) ==
  LET g == Gcd(Abs(n), Abs(d))
      s == IF d < 0 THEN -1 ELSE 1
  IN  <<(s * n) \div g, (s * d) \div g>>

QInt(k) == <<k, 1>>
QAdd(a, b) == Q(a[1] * b[2] + b[1] * a[2], a[2] * b[2])
QSub(a, b) == Q(a[1] * b[2] - b[1] * a[2], a[2] * b[2])
QMul(a, b) == Q(a[1] * b[1], a[2] * b[2])
QDiv(a, b) == Q(a[1] * b[2], a[2] * b[1])
QLe(a, b) == a[1] * b[2] <= b[1] * a[2]
QMin(a, b) == IF QLe(a, b) THEN a ELSE b

\* ------------------------------------------------------------------ inputs
\* Text fragments of a page's text layer: {str, transform, width, height}.
Item(s, x, y, h) ==
  [str |-> s, transform |-> <<1, 0, 0, 1, x, y>>, width |-> 0, height |-> h]

\* item.str.includes('$signature') over the strings the inputs use.
Includes(s) == s \in {"$signature", "Sign: $signature here"}

\* A page: viewport size at scale 1.0, the text layer, and whether
\* getTextContent rejects for the page.
Page(w, h, items, fails) ==
  [width |-> w, height |-> h, items |-> items, fails |-> fails]

Letter(fails) ==
  Page(612, 792,
       <<Item("Total", 50, 400, 12),
         Item("$signature", 100, 700, 0),
         Item("$Signature", 100, 600, 12)>>,
       fails)

Pages == {Letter(FALSE), Letter(TRUE)}

SeqsUpTo(S, n) == UNION {[1..k -> S] : k \in 1..n}

\* Byte payloads: whether they parse, their pages, and the images drawn
\* onto them by embedding.
Pdf(pages) == [valid |-> TRUE, pages |-> pages, drawn |-> <<>>]

Pdfs ==
  {Pdf(ps) : ps \in SeqsUpTo(Pages, MaxPages)}
  \cup {[valid |-> FALSE, pages |-> <<>>, drawn |-> <<>>]}

\* One-page payloads with one marker fragment, over page sizes, marker
\* origins inside the page and reported fragment heights.
GeomPdfs ==
  UNION {
    {Pdf(<<Page(w, h, <<Item("Sign: $signature here", x, y, ih)>>, FALSE)>>) :
       x \in {0, 40, w - 100}, y \in {0, 50, h - 20}, ih \in {0, 10}} :
    w \in {200, 612}, h \in {100, 792}}

\* Math.random().toString(36).substr(2, 9)
Ids == {"a", "b"}

\* Signature images from the pad (data URLs); "" is the absent value.
Marks == {"m1", "m2"}

\* Pixel size of the trimmed canvas image behind a data URL.
ImgDims(mark) ==
  IF mark = "m1" THEN [width |-> 300, height |-> 100]
  ELSE [width |-> 50, height |-> 100]

VARIABLES
  storage,            \* localStorage[STORAGE_KEY], parsed: the document records
  uploaded,           \* the payload the user uploaded
  currentView,        \* App: "DASHBOARD" or "SIGNING"
  documents,          \* Dashboard: the list it loaded when it mounted, <<>> when unmounted
  currentDoc,         \* SigningInterface: <<>> when unmounted, else <<doc>>
  activeSignId,       \* SigningInterface: "" is null
  isSigningModalOpen,
  isSaving,
  showShareMenu,
  saving,             \* a handleFinalSave suspended at its await: <<>> or <<closure>>
  alert,              \* what alert() showed in the last step, "" if nothing
  embedded,           \* signedPdfBase64 of the save behind the share menu: <<>> or <<payload>>
  shared              \* the file navigator.share was given in the last step: <<>> or <<payload>>

vars ==
  <<storage, uploaded, currentView, documents, currentDoc, activeSignId,
    isSigningModalOpen, isSaving, showShareMenu, saving, alert, embedded,
    shared>>

\* ------------------------------------------------------ placeholder scanner
\* The marker fragments of one page, in text-stream order.
PageMarkers(page, i) ==
  LET its == SelectSeq(page.items, LAMBDA it : Includes(it.str))
  IN  [k \in 1..Len(its) |->
         [pageIndex |-> i - 1, item |-> its[k],
          viewport |-> [width |-> page.width, height |-> page.height]]]

\* The page loop inside the try block: a rejected getTextContent leaves the
\* loop through the catch, keeping what was pushed before it.
RECURSIVE ScanPages(_, _)
ScanPages(pages, i) ==
  IF i > Len(pages) THEN <<>>
  ELSE IF pages[i].fails THEN <<>>
  ELSE PageMarkers(pages[i], i) \o ScanPages(pages, i + 1)

\* The fragments scanForSignatures pushes a location for.
Markers(pdf) == IF pdf.valid THEN ScanPages(pdf.pages, 1) ELSE <<>>

EffectiveHeight(item) == IF item.height = 0 THEN fallbackHeight ELSE item.height

ToNormalizedX(x, viewportWidth) == Q(x, viewportWidth)

\* Flipping y without the fragment's height.
ToNormalizedBaseline(pdfY, h, viewportHeight) ==
  LET uiY == viewportHeight - pdfY
  IN  Q(uiY, viewportHeight)

ToNormalizedTopLeft(pdfY, h, viewportHeight) ==
  LET uiY == viewportHeight - pdfY - h
  IN  Q(uiY, viewportHeight)

Location(m, id) ==
  LET tx == m.item.transform
      x == tx[5]
      y == tx[6]
      h == EffectiveHeight(m.item)
  IN  [id |-> id,
       pageIndex |-> m.pageIndex,
       x |-> ToNormalizedX(x, m.viewport.width),
       y |-> ToNormalizedTopLeft(y, h, m.viewport.height),
       width |-> Q(boxWidth, m.viewport.width),
       height |-> Q(boxHeight, m.viewport.height),
       value |-> ""]

\* rnd[k] is what Math.random yields for the k-th push.
ScanForSignatures(pdf, rnd) ==
  LET ms == Markers(pdf)
  IN  [k \in 1..Len(ms) |-> Location(ms[k], rnd[k])]

\* What the promise scanForSignatures returns settles to: the catch block
\* logs whatever was thrown, decode failures included, and the function
\* returns the locations pushed so far, so the promise never rejects.
ScanOutcome(pdf, rnd) ==
  [rejected |-> FALSE, value |-> ScanForSignatures(pdf, rnd)]

\* --------------------------------------------------------- placement store
\* Setting the mark on every placement, whatever its id.
AttachMarkAll(signatures, id, dataUrl) ==
  [k \in 1..Len(signatures) |-> [signatures[k] EXCEPT !.value = dataUrl]]

\* Setting the mark only where there is none yet.
AttachMarkOnce(signatures, id, dataUrl) ==
  [k \in 1..Len(signatures) |->
     IF signatures[k].id = id /\ signatures[k].value = ""
     THEN [signatures[k] EXCEPT !.value = dataUrl]
     ELSE signatures[k]]

AttachMark(signatures, id, dataUrl) ==
  [k \in 1..Len(signatures) |->
     IF signatures[k].id = id
     THEN [signatures[k] EXCEPT !.value = dataUrl]
     ELSE signatures[k]]

IsFullySigned(signatures) ==
  \A k \in 1..Len(signatures) : signatures[k].value # ""

\* --------------------------------------------------------- embedding engine
\* pdf-lib's PDFImage.scaleToFit
ScaleToFit(img, w, h) ==
  LET imgWidthScale == QDiv(w, QInt(img.width))
      imgHeightScale == QDiv(h, QInt(img.height))
      scale == QMin(imgWidthScale, imgHeightScale)
  IN  [width |-> QMul(QInt(img.width), scale),
       height |-> QMul(QInt(img.height), scale)]

FromNormalizedX(sx, width) == QMul(sx, QInt(width))

FromNormalizedY(sy, height, imageHeight) ==
  QSub(QSub(QInt(height), QMul(sy, QInt(height))), imageHeight)

\* Positioning with the nominal box height instead of the scaled height.
DrawImageNominalHeight(sig, page) ==
  LET pngDims == ScaleToFit(ImgDims(sig.value),
                            QMul(sig.width, QInt(page.width)),
                            QMul(sig.height, QInt(page.height)))
  IN  [pageIndex |-> sig.pageIndex,
       image |-> sig.value,
       x |-> FromNormalizedX(sig.x, page.width),
       y |-> FromNormalizedY(sig.y, page.height, QMul(sig.height, QInt(page.height))),
       width |-> pngDims.width,
       height |-> pngDims.height]

DrawImage(sig, page) ==
  LET pngDims == ScaleToFit(ImgDims(sig.value),
                            QMul(sig.width, QInt(page.width)),
                            QMul(sig.height, QInt(page.height)))
  IN  [pageIndex |-> sig.pageIndex,
       image |-> sig.value,
       x |-> FromNormalizedX(sig.x, page.width),
       y |-> FromNormalizedY(sig.y, page.height, pngDims.height),
       width |-> pngDims.width,
       height |-> pngDims.height]

\* Drawing for every placement, marked or not.
SkippedNever(sig) == FALSE

Skipped(sig) == sig.value = ""

\* Passing over a placement whose page does not exist instead of throwing.
RECURSIVE EmbedLoopSkipMissingPage(_, _, _)
EmbedLoopSkipMissingPage(pages, signatures, k) ==
  IF k > Len(signatures) THEN [threw |-> FALSE, drawn |-> <<>>]
  ELSE IF Skipped(signatures[k]) \/ signatures[k].pageIndex + 1 \notin DOMAIN pages
       THEN EmbedLoopSkipMissingPage(pages, signatures, k + 1)
  ELSE LET rest == EmbedLoopSkipMissingPage(pages, signatures, k + 1)
       IN  [threw |-> FALSE,
            drawn |-> <<DrawImage(signatures[k], pages[signatures[k].pageIndex + 1])>>
                      \o rest.drawn]

\* The loop over the signatures: the images drawn, or a throw when
\* pages[sig.pageIndex] is undefined.
RECURSIVE EmbedLoop(_, _, _)
EmbedLoop(pages, signatures, k) ==
  IF k > Len(signatures) THEN [threw |-> FALSE, drawn |-> <<>>]
  ELSE IF Skipped(signatures[k]) THEN EmbedLoop(pages, signatures, k + 1)
  ELSE IF signatures[k].pageIndex + 1 \notin DOMAIN pages
       THEN [threw |-> TRUE, drawn |-> <<>>]
  ELSE LET rest == EmbedLoop(pages, signatures, k + 1)
       IN  [threw |-> rest.threw,
            drawn |-> IF rest.threw THEN <<>>
                      ELSE <<DrawImage(signatures[k], pages[signatures[k].pageIndex + 1])>>
                           \o rest.drawn]

EmbedSignatures(originalBase64, signatures) ==
  IF ~originalBase64.valid
  THEN [threw |-> TRUE, data |-> originalBase64]
  ELSE LET r == EmbedLoop(originalBase64.pages, signatures, 1)
       IN  [threw |-> r.threw,
            data |-> [originalBase64 EXCEPT !.drawn = @ \o r.drawn]]

\* ----------------------------------------------------------------- storage
RECURSIVE FindIndex(_, _, _)
FindIndex(docs, id, i) ==
  IF i > Len(docs) THEN 0
  ELSE IF docs[i].id = id THEN i
  ELSE FindIndex(docs, id, i + 1)

\* quotaOk: whether localStorage.setItem accepts the new list.
SaveDocument(docs, doc, quotaOk) ==
  LET existingIndex == FindIndex(docs, doc.id, 1)
      updated == IF existingIndex >= 1
                 THEN [docs EXCEPT ![existingIndex] = doc]
                 ELSE <<doc>> \o docs
  IN  IF quotaOk THEN updated ELSE docs

\* -------------------------------------------------------------- operations
Unmounted ==
  /\ currentDoc' = <<>>
  /\ activeSignId' = ""
  /\ isSigningModalOpen' = FALSE
  /\ isSaving' = FALSE
  /\ showShareMenu' = FALSE
  /\ embedded' = <<>>

DerivedStatus(signatures) ==
  IF IsFullySigned(signatures) THEN "signed" ELSE "unsigned"

\* The record the upload flow stores for a file.
NewDocument(pdf, rnd) ==
  LET signatures == ScanForSignatures(pdf, rnd)
  IN  [id |-> 1,
       status |-> DerivedStatus(signatures),
       originalPdfData |-> pdf,
       signedPdfData |-> <<>>,
       signatures |-> signatures]

\* The App as it starts on the dashboard, one uploaded document in storage.
Started(pdf, rnd) ==
  /\ uploaded = pdf
  /\ storage = SaveDocument(<<>>, NewDocument(pdf, rnd), TRUE)
  /\ documents = storage
  /\ currentView = "DASHBOARD"
  /\ currentDoc = <<>>
  /\ activeSignId = ""
  /\ isSigningModalOpen = FALSE
  /\ isSaving = FALSE
  /\ showShareMenu = FALSE
  /\ saving = <<>>
  /\ alert = ""
  /\ embedded = <<>>
  /\ shared = <<>>

Init ==
  \E pdf \in Pdfs : \E rnd \in [1..Len(Markers(pdf)) -> Ids] : Started(pdf, rnd)

\* The signing view with the signature pad open for placement id `id`, which
\* need not be an id of the document: the inputs of the placement store.
InitStore ==
  \E pdf \in Pdfs : \E rnd \in [1..Len(Markers(pdf)) -> Ids] :
    \E id \in Ids \cup {"zz"} :
      /\ uploaded = pdf
      /\ storage = SaveDocument(<<>>, NewDocument(pdf, rnd), TRUE)
      /\ documents = <<>>
      /\ currentView = "SIGNING"
      /\ currentDoc = <<NewDocument(pdf, rnd)>>
      /\ activeSignId = id
      /\ isSigningModalOpen = TRUE
      /\ isSaving = FALSE
      /\ showShareMenu = FALSE
      /\ saving = <<>>
      /\ alert = ""
      /\ embedded = <<>>
      /\ shared = <<>>

\* A stored record whose placements point one page further than the scan of
\* its payload put them, so that the last one lies beyond the pages the
\* payload has when it is embedded: the inputs of the embedding engine.
ShiftedDocument(pdf, rnd) ==
  LET doc == NewDocument(pdf, rnd)
  IN  [doc EXCEPT !.signatures =
         [k \in DOMAIN doc.signatures |->
            [doc.signatures[k] EXCEPT !.pageIndex = @ + 1]]]

InitEmbed ==
  \E pdf \in Pdfs : \E rnd \in [1..Len(Markers(pdf)) -> Ids] :
    /\ uploaded = pdf
    /\ storage = SaveDocument(<<>>, ShiftedDocument(pdf, rnd), TRUE)
    /\ documents = storage
    /\ currentView = "DASHBOARD"
    /\ currentDoc = <<>>
    /\ activeSignId = ""
    /\ isSigningModalOpen = FALSE
    /\ isSaving = FALSE
    /\ showShareMenu = FALSE
    /\ saving = <<>>
    /\ alert = ""
    /\ embedded = <<>>
    /\ shared = <<>>

\* The same start, over the geometry inputs.
InitGeom ==
  \E pdf \in GeomPdfs : \E rnd \in [1..Len(Markers(pdf)) -> Ids] : Started(pdf, rnd)

\* The placements of the open document.
Signatures == IF currentDoc = <<>> THEN <<>> ELSE currentDoc[1].signatures

HandleOpenDocument(i) ==
  /\ currentView = "DASHBOARD"
  /\ i \in DOMAIN documents
  /\ currentDoc' = <<documents[i]>>
  /\ currentView' = "SIGNING"
  /\ documents' = <<>>
  /\ UNCHANGED <<storage, uploaded, activeSignId, isSigningModalOpen,
                 isSaving, showShareMenu, saving, embedded>>
  /\ alert' = ""
  /\ shared' = <<>>

\* Leaving the signing view unmounts it; the Dashboard mounts and reloads its
\* list. A suspended handleFinalSave keeps running against the unmounted view.
HandleBackToDashboard ==
  /\ currentView = "SIGNING"
  /\ ~isSigningModalOpen
  /\ currentView' = "DASHBOARD"
  /\ documents' = storage
  /\ Unmounted
  /\ saving' = IF saving = <<>> THEN <<>>
               ELSE <<[saving[1] EXCEPT !.mounted = FALSE]>>
  /\ UNCHANGED <<storage, uploaded>>
  /\ alert' = ""
  /\ shared' = <<>>

HandleBoxClick(k) ==
  /\ currentView = "SIGNING"
  /\ ~isSigningModalOpen
  /\ k \in DOMAIN Signatures
  /\ currentDoc[1].originalPdfData.valid
  /\ activeSignId' = currentDoc[1].signatures[k].id
  /\ isSigningModalOpen' = TRUE
  /\ UNCHANGED <<storage, uploaded, currentView, documents, currentDoc,
                 isSaving, showShareMenu, saving, embedded>>
  /\ alert' = ""
  /\ shared' = <<>>

CloseSigningModal ==
  /\ isSigningModalOpen
  /\ isSigningModalOpen' = FALSE
  /\ UNCHANGED <<storage, uploaded, currentView, documents, currentDoc,
                 activeSignId, isSaving, showShareMenu, saving, embedded>>
  /\ alert' = ""
  /\ shared' = <<>>

\* isEmpty, dataUrl: the state of the signature pad.
ConfirmSignature(isEmpty, dataUrl) ==
  /\ isSigningModalOpen
  /\ IF activeSignId # ""
     THEN IF isEmpty
          THEN /\ alert' = "Please draw a signature first"
               /\ UNCHANGED <<currentDoc, isSigningModalOpen, activeSignId>>
          ELSE /\ currentDoc' =
                    <<[currentDoc[1] EXCEPT
                         !.signatures = AttachMark(@, activeSignId, dataUrl)]>>
               /\ isSigningModalOpen' = FALSE
               /\ activeSignId' = ""
               /\ alert' = ""
     ELSE /\ alert' = ""
          /\ UNCHANGED <<currentDoc, isSigningModalOpen, activeSignId>>
  /\ UNCHANGED <<storage, uploaded, currentView, documents, isSaving,
                 showShareMenu, saving, embedded>>
  /\ shared' = <<>>

\* Embedding into the derived payload when there is one.
EmbedInputPreferSigned(doc) ==
  IF doc.signedPdfData # <<>> THEN doc.signedPdfData[1] ELSE doc.originalPdfData

\* The first argument of the embedSignatures call.
EmbedInput(doc) == doc.originalPdfData

\* handleFinalSave up to its await: the closure keeps the currentDoc of the
\* render the click came from.
HandleFinalSaveStart ==
  /\ currentView = "SIGNING"
  /\ ~isSigningModalOpen
  /\ ~showShareMenu
  /\ ~isSaving
  /\ saving = <<>>
  /\ isSaving' = TRUE
  /\ saving' = <<[doc |-> currentDoc[1], input |-> EmbedInput(currentDoc[1]),
                  mounted |-> TRUE]>>
  /\ UNCHANGED <<storage, uploaded, currentView, documents, currentDoc,
                 activeSignId, isSigningModalOpen, showShareMenu, embedded>>
  /\ alert' = ""
  /\ shared' = <<>>

\* Storing the derived payload without recomputing the status.
UpdatedDocStaleStatus(doc, signedPdfBase64) ==
  [doc EXCEPT !.signedPdfData = <<signedPdfBase64>>]

UpdatedDoc(doc, signedPdfBase64) ==
  [doc EXCEPT !.status = DerivedStatus(doc.signatures),
              !.signedPdfData = <<signedPdfBase64>>]

\* handleFinalSave from the await on: embed result, saveDocument, the alerts
\* and the finally block.
HandleFinalSaveFinish(quotaOk) ==
  /\ saving # <<>>
  /\ LET c == saving[1]
         r == EmbedSignatures(c.input, c.doc.signatures)
     IN  /\ IF r.threw
            THEN /\ alert' = "Error saving document."
                 /\ UNCHANGED <<storage, showShareMenu, embedded>>
            ELSE /\ storage' = SaveDocument(storage, UpdatedDoc(c.doc, r.data), quotaOk)
                 /\ embedded' = IF c.mounted THEN <<r.data>> ELSE embedded
                 /\ alert' = "Document saved successfully!"
                 /\ showShareMenu' = IF c.mounted THEN TRUE ELSE showShareMenu
         /\ isSaving' = IF c.mounted THEN FALSE ELSE isSaving
  /\ saving' = <<>>
  /\ UNCHANGED <<uploaded, currentView, documents, currentDoc, activeSignId,
                 isSigningModalOpen>>
  /\ shared' = <<>>

CloseShareMenu ==
  /\ currentView = "SIGNING"
  /\ ~isSigningModalOpen
  /\ showShareMenu
  /\ showShareMenu' = FALSE
  /\ UNCHANGED <<storage, uploaded, currentView, documents, currentDoc,
                 activeSignId, isSigningModalOpen, isSaving, saving>>
  /\ embedded' = <<>>
  /\ alert' = ""
  /\ shared' = <<>>

\* The file handleShare builds from the open document.
DataToShare(doc) ==
  IF doc.signedPdfData # <<>> THEN doc.signedPdfData[1] ELSE doc.originalPdfData

\* method: the button pressed; canShare: whether the browser has
\* navigator.share. Only the native share sends the file.
HandleShare(method, canShare) ==
  /\ currentView = "SIGNING"
  /\ ~isSigningModalOpen
  /\ showShareMenu
  /\ shared' = IF method = "native" /\ canShare
               THEN <<DataToShare(currentDoc[1])>>
               ELSE <<>>
  /\ alert' = ""
  /\ UNCHANGED <<storage, uploaded, currentView, documents, currentDoc,
                 activeSignId, isSigningModalOpen, isSaving, showShareMenu,
                 saving, embedded>>

Next ==
  \/ \E i \in DOMAIN documents : HandleOpenDocument(i)
  \/ HandleBackToDashboard
  \/ \E k \in DOMAIN Signatures : HandleBoxClick(k)
  \/ CloseSigningModal
  \/ \E isEmpty \in BOOLEAN : \E dataUrl \in Marks : ConfirmSignature(isEmpty, dataUrl)
  \/ HandleFinalSaveStart
  \/ \E quotaOk \in BOOLEAN : HandleFinalSaveFinish(quotaOk)
  \/ CloseShareMenu
  \/ \E method \in {"native", "mail"} : \E canShare \in BOOLEAN :
       HandleShare(method, canShare)

Spec == Init /\ [][Next]_vars

SpecGeom == InitGeom /\ [][Next]_vars

SpecStore == InitStore /\ [][Next]_vars

\* ------------------------------------------------------------------ claims
\* The stored record of the uploaded document.
Stored == storage[1]

\* How many of the placements lie on the page with index pageIndex.
PlacementsOnPage(signatures, pageIndex) ==
  Len(SelectSeq(signatures, LAMBDA sig : sig.pageIndex = pageIndex))

C2_PageFailureIsolated ==
  uploaded.valid =>
    \A i \in DOMAIN uploaded.pages :
      PlacementsOnPage(Stored.signatures, i - 1)
        = IF uploaded.pages[i].fails THEN 0
          ELSE Len(PageMarkers(uploaded.pages[i], i))

\* C3: the original payload of every record of the document stays the
\* uploaded payload, and every embed run takes the uploaded payload as its
\* input, also when the record already holds a derived payload.
C3_EmbedsOriginalOnly ==
  /\ \A i \in DOMAIN storage : storage[i].originalPdfData = uploaded
  /\ currentDoc # <<>> => currentDoc[1].originalPdfData = uploaded
  /\ saving # <<>> =>
       /\ saving[1].input = uploaded
       /\ saving[1].doc.originalPdfData = uploaded

\* An embed run starts on a record that holds a derived payload with a
\* drawn mark.
C3_Witness ==
  /\ saving # <<>>
  /\ saving[1].doc.signedPdfData # <<>>
  /\ saving[1].doc.signedPdfData[1].drawn # <<>>

\* C4 as stated: the status of every record of the document is signed iff
\* every placement of the record has a mark.
C4_StatusDerived ==
  /\ \A i \in DOMAIN storage :
       (storage[i].status = "signed") <=> IsFullySigned(storage[i].signatures)
  /\ currentDoc # <<>> =>
       ((currentDoc[1].status = "signed") <=> IsFullySigned(currentDoc[1].signatures))

\* C4, amended: a record persisted by a save has status signed iff every
\* placement of that record has a mark (vacuously so with no placements),
\* and unsigned otherwise.
C4_StatusDerivedAtSave ==
  \A i \in DOMAIN storage :
    storage[i].signedPdfData # <<>> =>
      /\ storage[i].status \in {"signed", "unsigned"}
      /\ (storage[i].status = "signed") <=>
           \A k \in DOMAIN storage[i].signatures : storage[i].signatures[k].value # ""

\* A save persisted a record all of whose placements, two of them with
\* different ids, have a mark.
C4_Witness ==
  /\ Stored.signedPdfData # <<>>
  /\ Len(Stored.signatures) = 2
  /\ Stored.signatures[1].id # Stored.signatures[2].id
  /\ \A k \in DOMAIN Stored.signatures : Stored.signatures[k].value # ""
  /\ Stored.status = "signed"

\* The placements of a record that have a mark, in sequence order.
MarkedOf(doc) == SelectSeq(doc.signatures, LAMBDA sig : sig.value # "")

\* C5: the payload an embed run produced holds exactly one drawn image for
\* each placement with a mark, in sequence order, on that placement's page,
\* and none for a placement without a mark; its pages are the original's.
C5_OneImagePerMark ==
  \A i \in DOMAIN storage :
    storage[i].signedPdfData # <<>> =>
      LET out == storage[i].signedPdfData[1]
          marked == MarkedOf(storage[i])
      IN  /\ Len(out.drawn) = Len(marked)
          /\ \A j \in DOMAIN out.drawn :
               /\ out.drawn[j].image = marked[j].value
               /\ out.drawn[j].pageIndex = marked[j].pageIndex
          /\ out.pages = storage[i].originalPdfData.pages
          /\ (\A k \in DOMAIN storage[i].signatures :
                storage[i].signatures[k].value = "") => out.drawn = <<>>

\* An embed run over two placements, the first without a mark and the
\* second with one.
C5_Witness ==
  /\ Stored.signedPdfData # <<>>
  /\ Len(Stored.signatures) = 2
  /\ Stored.signatures[1].value = ""
  /\ Stored.signatures[2].value # ""
  /\ Len(Stored.signedPdfData[1].drawn) = 1

\* C6: attachMark changes only the mark of the placements whose id matches:
\* length, order, ids, pages and positions stay, and every placement with
\* another id stays as it was, mark included.
C6_AttachMarkFrame ==
  [][(\E isEmpty \in BOOLEAN : \E dataUrl \in Marks : ConfirmSignature(isEmpty, dataUrl))
     => /\ Len(Signatures') = Len(Signatures)
        /\ \A k \in DOMAIN Signatures :
             /\ Signatures'[k].id = Signatures[k].id
             /\ Signatures'[k].pageIndex = Signatures[k].pageIndex
             /\ Signatures'[k].x = Signatures[k].x
             /\ Signatures'[k].y = Signatures[k].y
             /\ Signatures'[k].width = Signatures[k].width
             /\ Signatures'[k].height = Signatures[k].height
             /\ Signatures[k].id # activeSignId => Signatures'[k] = Signatures[k]]_vars

\* A mark was attached to the second of two placements with different ids
\* while the first holds another mark.
C6_Witness ==
  /\ Len(Signatures) = 2
  /\ Signatures[1].id # Signatures[2].id
  /\ Signatures[1].value = "m1"
  /\ Signatures[2].value = "m2"

\* C7: the placement ids one scan produced are pairwise distinct.
C7_IdsDistinct ==
  \A j, k \in DOMAIN Stored.signatures :
    j # k => Stored.signatures[j].id # Stored.signatures[k].id

\* C8: for a marker origin inside the page, x, y, width and height of the
\* placement lie in [0,1], and x + width <= 1 and y + height <= 1.
InUnit(q) == QLe(QInt(0), q) /\ QLe(q, QInt(1))

C8_InsidePage ==
  \A k \in DOMAIN Stored.signatures :
    LET sig == Stored.signatures[k]
        m == Markers(uploaded)[k]
    IN  (/\ 0 <= m.item.transform[5] /\ m.item.transform[5] <= m.viewport.width
         /\ 0 <= m.item.transform[6] /\ m.item.transform[6] <= m.viewport.height)
        => /\ InUnit(sig.x) /\ InUnit(sig.y)
           /\ InUnit(sig.width) /\ InUnit(sig.height)
           /\ QLe(QAdd(sig.x, sig.width), QInt(1))
           /\ QLe(QAdd(sig.y, sig.height), QInt(1))

\* C9: the y of a scanned placement, taken back to page-content space with
\* the embed formula and the height the scan used, is the fragment's
\* original y.
C9_RoundTripY ==
  \A k \in DOMAIN Stored.signatures :
    LET m == Markers(uploaded)[k]
        h == EffectiveHeight(m.item)
    IN  FromNormalizedY(Stored.signatures[k].y, m.viewport.height, QInt(h))
          = QInt(m.item.transform[6])

\* A placement scanned from a fragment that reports no height, at a y the
\* page height does not divide.
C9_Witness ==
  /\ Len(Stored.signatures) = 1
  /\ Markers(uploaded)[1].item.height = 0
  /\ Markers(uploaded)[1].item.transform[6] = 50
  /\ Stored.signatures[1].y = <<365, 396>>

\* C10: every drawn image fits the placement's nominal box with the
\* image's aspect ratio, filling one of the box's dimensions; it is drawn at
\* x * pageWidth and pageHeight - y * pageHeight - scaledHeight, so its top
\* edge is the placement's top edge and it lies inside the nominal box.
C10_ScaledThenPlaced ==
  \A i \in DOMAIN storage :
    storage[i].signedPdfData # <<>> =>
      LET out == storage[i].signedPdfData[1]
          marked == MarkedOf(storage[i])
      IN  \A j \in DOMAIN out.drawn :
            j \in DOMAIN marked =>
              LET d == out.drawn[j]
                  sig == marked[j]
                  page == out.pages[sig.pageIndex + 1]
                  W == QInt(page.width)
                  H == QInt(page.height)
                  boxW == QMul(sig.width, W)
                  boxH == QMul(sig.height, H)
                  left == QMul(sig.x, W)
                  top == QSub(H, QMul(sig.y, H))
                  img == ImgDims(d.image)
              IN  /\ QLe(d.width, boxW) /\ QLe(d.height, boxH)
                  /\ d.width = boxW \/ d.height = boxH
                  /\ QMul(d.width, QInt(img.height)) = QMul(d.height, QInt(img.width))
                  /\ d.x = left
                  /\ d.y = QSub(top, d.height)
                  /\ QAdd(d.y, d.height) = top
                  /\ QLe(QSub(top, boxH), d.y)
                  /\ QLe(QAdd(d.x, d.width), QAdd(left, boxW))

\* An image was drawn whose scaled height is less than the nominal box's.
C10_Witness ==
  /\ Stored.signedPdfData # <<>>
  /\ Len(Stored.signedPdfData[1].drawn) = 1
  /\ Stored.signedPdfData[1].drawn[1].height = <<50, 1>>
  /\ Stored.signedPdfData[1].drawn[1].width = <<150, 1>>

SpecEmbed == InitEmbed /\ [][Next]_vars

\* Whether some placement (with markedOnly: some placement that has a mark)
\* lies beyond the pages.
OutOfRange(signatures, pages, markedOnly) ==
  \E k \in DOMAIN signatures :
    /\ signatures[k].pageIndex >= Len(pages)
    /\ markedOnly => signatures[k].value # ""

C12_DecodeFailureSurfaced ==
  ~uploaded.valid =>
    /\ ScanOutcome(uploaded, <<>>).rejected
    /\ EmbedSignatures(uploaded, Stored.signatures).threw

\* The images a payload has drawn at a placement's page and x.
DrawnAt(pdf, sig) ==
  SelectSeq(pdf.drawn,
            LAMBDA d : /\ d.pageIndex = sig.pageIndex
                       /\ d.x = FromNormalizedX(sig.x, pdf.pages[sig.pageIndex + 1].width))

\* C13: attaching a mark to a placement that holds another mark leaves the
\* placement holding only the new one; and an embed run on a document whose
\* earlier derived payload drew an overwritten mark persists a payload that
\* draws, at each placement with a mark, that placement's current mark and
\* nothing else.
C13_OverwrittenMarkGone ==
  /\ [][\A dataUrl \in Marks :
          (/\ activeSignId # ""
           /\ \E k \in DOMAIN Signatures :
                /\ Signatures[k].id = activeSignId
                /\ Signatures[k].value \notin {"", dataUrl}
           /\ ConfirmSignature(FALSE, dataUrl))
          => \A k \in DOMAIN Signatures :
               Signatures[k].id = activeSignId => Signatures'[k].value = dataUrl]_vars
  /\ [][(/\ saving # <<>>
         /\ saving[1].doc.signedPdfData # <<>>
         /\ \E k \in DOMAIN saving[1].doc.signatures :
              LET sig == saving[1].doc.signatures[k]
                  before == DrawnAt(saving[1].doc.signedPdfData[1], sig)
              IN  /\ sig.value # ""
                  /\ before # <<>>
                  /\ before[1].image # sig.value
         /\ HandleFinalSaveFinish(TRUE))
        => /\ Stored'.signedPdfData # <<>>
           /\ \A k \in DOMAIN Stored'.signatures :
                LET sig == Stored'.signatures[k]
                    now == DrawnAt(Stored'.signedPdfData[1], sig)
                IN  /\ sig = saving[1].doc.signatures[k]
                    /\ sig.value # "" => (Len(now) = 1 /\ now[1].image = sig.value)
                    /\ sig.value = "" => now = <<>>]_vars

\* A document reopened with "m1" embedded at its only placement had that
\* placement's mark replaced by "m2" and was saved: the stored payload draws
\* "m2" alone.
C13_Witness ==
  /\ alert = "Document saved successfully!"
  /\ Len(Signatures) = 1
  /\ currentDoc[1].signedPdfData # <<>>
  /\ Len(currentDoc[1].signedPdfData[1].drawn) = 1
  /\ currentDoc[1].signedPdfData[1].drawn[1].image = "m1"
  /\ Signatures[1].value = "m2"
  /\ Stored.signatures[1].value = "m2"
  /\ Len(Stored.signedPdfData[1].drawn) = 1
  /\ Stored.signedPdfData[1].drawn[1].image = "m2"

\* C14: while a save is in progress the placements of the open document do
\* not change, and when a save of the open document completes, the persisted
\* placement sequence is the open document's and the persisted payload draws
\* exactly the open document's marks.
C14_SaveSerialized ==
  /\ [][isSaving => Signatures' = Signatures]_vars
  /\ [][(/\ saving # <<>>
         /\ saving[1].mounted
         /\ ~EmbedSignatures(saving[1].input, saving[1].doc.signatures).threw
         /\ HandleFinalSaveFinish(TRUE))
        => /\ Stored'.signatures = Signatures'
           /\ Len(Stored'.signedPdfData[1].drawn)
                = Len(SelectSeq(Signatures', LAMBDA sig : sig.value # ""))]_vars

\* C15: a file handed to the share sheet is the derived payload of the most
\* recent embed run.
C15_SharesLatestDerived ==
  shared # <<>> => shared = embedded

====
